---- MODULE Spec2Model ----
(***************************************************************************)
(* A model of src/server.py, the Financial Datasets MCP server: the        *)
(* request adapter make_request and the eleven tools registered on the     *)
(* FastMCP server.  A tool invocation is a coroutine: it builds its URL,    *)
(* enters make_request (load_dotenv, header map, one client.get) and       *)
(* suspends at the network await; when the response arrives make_request   *)
(* finishes and the tool runs to its return without suspending again.      *)
(*                                                                         *)
(* JSON values are tagged records [k, v]; text (a response body, a tool's  *)
(* returned string) is a sequence of tokens [t, s, n], so that json.dumps  *)
(* and json.loads are conversions between two different representations.   *)
(***************************************************************************)
EXTENDS Integers, Sequences, FiniteSets, TLC

VARIABLES
    pc,        \* per call: "idle", "awaiting" (suspended in client.get), "done", "raised"
    tool,      \* per call: the tool invoked
    args,      \* per call: the arguments the host supplied
    wire,      \* per client: the GET requests issued through it in this invocation
    envSeen,   \* per call: the process environment as it was when the call started
    reply,     \* per call: the outcome the network delivered
    returned,  \* per call: what make_request returned (or that it raised)
    result,    \* per call: the string the tool returned
    overlapped, \* per call: another call was suspended when this one resumed
    env,       \* os.environ["FINANCIAL_DATASETS_API_KEY"]
    dotenv,    \* the value the .env file gives the variable, if any
    nCalls,    \* tool invocations started so far
    nGets      \* HTTP GETs issued so far

vars ==
    <<pc, tool, args, wire, envSeen, reply, returned, result, overlapped,
      env, dotenv, nCalls, nGets>>

\* Bounds of the model.
MaxCalls == 3
MaxItems == 2

Calls == {"c1", "c2"}

-----------------------------------------------------------------------------
(* JSON values *)

JNull == [k |-> "null", v |-> 0]
JBool(b) == [k |-> "bool", v |-> b]
JNum(n) == [k |-> "num", v |-> n]
JStr(s) == [k |-> "str", v |-> s]
JArr(items) == [k |-> "arr", v |-> items]
JObj(members) == [k |-> "obj", v |-> members]
Member(key, val) == [key |-> key, val |-> val]

\* Python's `not x` on a value json.loads can produce.
Falsy(j) ==
    CASE j.k = "null" -> TRUE
      [] j.k = "bool" -> ~j.v
      [] j.k = "num" -> j.v = 0
      [] j.k = "str" -> j.v = ""
      [] j.k = "arr" -> Len(j.v) = 0
      [] j.k = "obj" -> Len(j.v) = 0

HasKey(d, key) == \E i \in 1..Len(d.v) : d.v[i].key = key

\* dict.get(key, default)
DictGet(d, key, default) ==
    IF HasKey(d, key)
    THEN d.v[CHOOSE i \in 1..Len(d.v) : d.v[i].key = key].val
    ELSE default

\* d[key] = val on a dict under construction: a repeated key keeps its place
\* and takes the later value.
DictSet(members, key, val) ==
    IF \E i \in 1..Len(members) : members[i].key = key
    THEN [i \in 1..Len(members) |->
            IF members[i].key = key THEN Member(key, val) ELSE members[i]]
    ELSE Append(members, Member(key, val))

-----------------------------------------------------------------------------
(* Text as tokens *)

P(s) == [t |-> "p", s |-> s, n |-> 0]          \* punctuation
NL(l) == [t |-> "nl", s |-> "", n |-> l]        \* a newline and 2*l spaces
SP == [t |-> "sp", s |-> "", n |-> 0]           \* one space
TNum(n) == [t |-> "num", s |-> "", n |-> n]     \* a number literal
TStr(s) == [t |-> "str", s |-> s, n |-> 0]      \* a quoted string literal
TLit(s) == [t |-> "lit", s |-> s, n |-> 0]      \* null, true, false
TText(s) == [t |-> "text", s |-> s, n |-> 0]    \* text that is not JSON

RECURSIVE JsonDumps(_, _)
RECURSIVE DumpItems(_, _, _)
RECURSIVE DumpMembers(_, _, _)

\* json.dumps(j, indent=2), at nesting level lvl.
JsonDumps(j, lvl) ==
    CASE j.k = "null" -> <<TLit("null")>>
      [] j.k = "bool" -> <<TLit(IF j.v THEN "true" ELSE "false")>>
      [] j.k = "num" -> <<TNum(j.v)>>
      [] j.k = "str" -> <<TStr(j.v)>>
      [] j.k = "arr" ->
            IF Len(j.v) = 0 THEN <<P("["), P("]")>>
            ELSE <<P("[")>> \o DumpItems(j.v, lvl + 1, 1) \o <<NL(lvl), P("]")>>
      [] j.k = "obj" ->
            IF Len(j.v) = 0 THEN <<P("{"), P("}")>>
            ELSE <<P("{")>> \o DumpMembers(j.v, lvl + 1, 1) \o <<NL(lvl), P("}")>>

DumpItems(items, lvl, i) ==
    IF i > Len(items) THEN <<>>
    ELSE <<NL(lvl)>> \o JsonDumps(items[i], lvl)
         \o (IF i < Len(items) THEN <<P(",")>> ELSE <<>>)
         \o DumpItems(items, lvl, i + 1)

DumpMembers(members, lvl, i) ==
    IF i > Len(members) THEN <<>>
    ELSE <<NL(lvl), TStr(members[i].key), P(":"), SP>>
         \o JsonDumps(members[i].val, lvl)
         \o (IF i < Len(members) THEN <<P(",")>> ELSE <<>>)
         \o DumpMembers(members, lvl, i + 1)

ParseFail == [ok |-> FALSE, val |-> JNull, next |-> 0]
Parsed(val, next) == [ok |-> TRUE, val |-> val, next |-> next]

RECURSIVE SkipWs(_, _)
SkipWs(ts, i) ==
    IF i <= Len(ts) /\ ts[i].t \in {"nl", "sp"} THEN SkipWs(ts, i + 1) ELSE i

IsP(ts, i, s) == i <= Len(ts) /\ ts[i] = P(s)

RECURSIVE ParseValue(_, _)
RECURSIVE ParseItems(_, _, _)
RECURSIVE ParseMembers(_, _, _)

ParseValue(ts, i0) ==
    LET i == SkipWs(ts, i0) IN
    IF i > Len(ts) THEN ParseFail
    ELSE LET tk == ts[i] IN
         CASE tk.t = "lit" /\ tk.s = "null" -> Parsed(JNull, i + 1)
           [] tk.t = "lit" /\ tk.s = "true" -> Parsed(JBool(TRUE), i + 1)
           [] tk.t = "lit" /\ tk.s = "false" -> Parsed(JBool(FALSE), i + 1)
           [] tk.t = "num" -> Parsed(JNum(tk.n), i + 1)
           [] tk.t = "str" -> Parsed(JStr(tk.s), i + 1)
           [] tk = P("[") ->
                IF IsP(ts, SkipWs(ts, i + 1), "]")
                THEN Parsed(JArr(<<>>), SkipWs(ts, i + 1) + 1)
                ELSE ParseItems(ts, i + 1, <<>>)
           [] tk = P("{") ->
                IF IsP(ts, SkipWs(ts, i + 1), "}")
                THEN Parsed(JObj(<<>>), SkipWs(ts, i + 1) + 1)
                ELSE ParseMembers(ts, i + 1, <<>>)
           [] OTHER -> ParseFail

ParseItems(ts, i0, acc) ==
    LET r == ParseValue(ts, i0) IN
    IF ~r.ok THEN ParseFail
    ELSE LET j == SkipWs(ts, r.next) IN
         IF IsP(ts, j, ",") THEN ParseItems(ts, j + 1, Append(acc, r.val))
         ELSE IF IsP(ts, j, "]") THEN Parsed(JArr(Append(acc, r.val)), j + 1)
         ELSE ParseFail

ParseMembers(ts, i0, acc) ==
    LET i == SkipWs(ts, i0) IN
    IF ~(i <= Len(ts) /\ ts[i].t = "str") THEN ParseFail
    ELSE LET c == SkipWs(ts, i + 1) IN
         IF ~IsP(ts, c, ":") THEN ParseFail
         ELSE LET r == ParseValue(ts, c + 1) IN
              IF ~r.ok THEN ParseFail
              ELSE LET j == SkipWs(ts, r.next)
                       acc2 == DictSet(acc, ts[i].s, r.val) IN
                   IF IsP(ts, j, ",") THEN ParseMembers(ts, j + 1, acc2)
                   ELSE IF IsP(ts, j, "}") THEN Parsed(JObj(acc2), j + 1)
                   ELSE ParseFail

\* json.loads(ts): ok is FALSE where Python raises JSONDecodeError.
JsonLoads(ts) ==
    LET r == ParseValue(ts, 1) IN
    IF r.ok /\ SkipWs(ts, r.next) > Len(ts)
    THEN [ok |-> TRUE, val |-> r.val]
    ELSE [ok |-> FALSE, val |-> JNull]

-----------------------------------------------------------------------------
(* The process environment and the request adapter *)

FINANCIAL_DATASETS_API_BASE == "https://api.financialdatasets.ai"

Unset == [set |-> FALSE, val |-> ""]
SetTo(s) == [set |-> TRUE, val |-> s]

\* load_dotenv() with its default override=False: a variable the .env file
\* defines is put into os.environ only when os.environ does not hold it.
load_dotenv(e, file) == IF ~e.set /\ file.set THEN file ELSE e

\* A header map that attaches the key whenever the variable is set, the empty
\* string included.
api_key_headers_if_set(e) ==
    IF e.set THEN <<[name |-> "X-API-KEY", value |-> e.val]>> ELSE <<>>

\* headers = {}; if api_key := os.environ.get(...): headers["X-API-KEY"] = api_key
api_key_headers(e) ==
    IF e.set /\ e.val # ""
    THEN <<[name |-> "X-API-KEY", value |-> e.val]>>
    ELSE <<>>

\* One module-level client shared by every call.
SharedClient(c) == "c1"

\* async with httpx.AsyncClient() as client: every call opens its own client.
ClientOf(c) == c

\* A client.get that sends the request a second time.
SendGetTwice(log, req) == Append(Append(log, req), req)

\* await client.get(url, headers=headers, timeout=30.0): one GET on the wire.
SendGet(log, req) == Append(log, req)

\* What a step of make_request's try block yields: an exception with its
\* text, or a value.
Exc(msg) == [exc |-> TRUE, msg |-> msg, val |-> JNull]
Value(j) == [exc |-> FALSE, msg |-> "", val |-> j]

\* str(e) of the transport exceptions httpx raises.
TransportText(net) ==
    CASE net = "ConnectError" -> "All connection attempts failed"
      [] net = "ReadTimeout" -> ""
      [] OTHER -> net

client_get(o) == IF o.net = "ok" THEN Value(JNull) ELSE Exc(TransportText(o.net))

\* Raises httpx.HTTPStatusError unless the status is 2xx; the text stands for
\* httpx's longer message, which names the status.
raise_for_status(o) ==
    IF o.status \in 200..299 THEN Value(JNull)
    ELSE Exc("HTTP error " \o ToString(o.status))

\* json.loads of the body; JSONDecodeError's text where it is not JSON.
response_json(o) ==
    LET r == JsonLoads(o.body) IN
    IF r.ok THEN Value(r.val) ELSE Exc("Expecting value: line 1 column 1 (char 0)")

ErrorMapping(msg) == JObj(<<Member("Error", JStr(msg))>>)

\* A make_request whose except clause names httpx.HTTPError only: a body that
\* is not JSON escapes it.
make_request_narrow(o) ==
    IF client_get(o).exc THEN Value(ErrorMapping(client_get(o).msg))
    ELSE IF raise_for_status(o).exc THEN Value(ErrorMapping(raise_for_status(o).msg))
    ELSE response_json(o)

\* make_request from the arrival of the network outcome o to its return.
make_request(o) ==
    IF client_get(o).exc THEN Value(ErrorMapping(client_get(o).msg))
    ELSE IF raise_for_status(o).exc THEN Value(ErrorMapping(raise_for_status(o).msg))
    ELSE IF response_json(o).exc THEN Value(ErrorMapping(response_json(o).msg))
    ELSE Value(response_json(o).val)

-----------------------------------------------------------------------------
(* The tools *)

\* An optional argument: given with a value, or left to the signature's default.
Given(x) == [given |-> TRUE, v |-> x]
OmitStr == [given |-> FALSE, v |-> ""]
OmitInt == [given |-> FALSE, v |-> 0]
Bind(opt, default) == IF opt.given THEN opt.v ELSE default

\* What a tool's body yields: the returned string, or an exception.
Return(ts) == [exc |-> FALSE, out |-> ts]
Raise == [exc |-> TRUE, out |-> <<>>]
Sentence(s) == <<TText(s)>>

\* get_income_statements with limit defaulting to 10, as get_sec_filings has it.
get_income_statements_url_limit10(a) ==
    <<FINANCIAL_DATASETS_API_BASE, "/financials/income-statements/?ticker=", a.ticker,
      "&period=", Bind(a.period, "annual"),
      "&limit=", ToString(Bind(a.limit, 10))>>

get_income_statements_url(a) ==
    <<FINANCIAL_DATASETS_API_BASE, "/financials/income-statements/?ticker=", a.ticker,
      "&period=", Bind(a.period, "annual"),
      "&limit=", ToString(Bind(a.limit, 4))>>

get_income_statements_result(data) ==
    IF Falsy(data) THEN Return(Sentence("Unable to fetch income statements or no income statements found."))
    ELSE IF data.k # "obj" THEN Raise      \* data.get: AttributeError
    ELSE IF Falsy(DictGet(data, "income_statements", JArr(<<>>)))
         THEN Return(Sentence("Unable to fetch income statements or no income statements found."))
         ELSE Return(JsonDumps(DictGet(data, "income_statements", JArr(<<>>)), 0))

get_balance_sheets_url(a) ==
    <<FINANCIAL_DATASETS_API_BASE, "/financials/balance-sheets/?ticker=", a.ticker,
      "&period=", Bind(a.period, "annual"),
      "&limit=", ToString(Bind(a.limit, 4))>>

get_balance_sheets_result(data) ==
    IF Falsy(data) THEN Return(Sentence("Unable to fetch balance sheets or no balance sheets found."))
    ELSE IF data.k # "obj" THEN Raise      \* data.get: AttributeError
    ELSE IF Falsy(DictGet(data, "balance_sheets", JArr(<<>>)))
         THEN Return(Sentence("Unable to fetch balance sheets or no balance sheets found."))
         ELSE Return(JsonDumps(DictGet(data, "balance_sheets", JArr(<<>>)), 0))

get_cash_flow_statements_url(a) ==
    <<FINANCIAL_DATASETS_API_BASE, "/financials/cash-flow-statements/?ticker=", a.ticker,
      "&period=", Bind(a.period, "annual"),
      "&limit=", ToString(Bind(a.limit, 4))>>

get_cash_flow_statements_result(data) ==
    IF Falsy(data) THEN Return(Sentence("Unable to fetch cash flow statements or no cash flow statements found."))
    ELSE IF data.k # "obj" THEN Raise      \* data.get: AttributeError
    ELSE IF Falsy(DictGet(data, "cash_flow_statements", JArr(<<>>)))
         THEN Return(Sentence("Unable to fetch cash flow statements or no cash flow statements found."))
         ELSE Return(JsonDumps(DictGet(data, "cash_flow_statements", JArr(<<>>)), 0))

get_current_stock_price_url(a) ==
    <<FINANCIAL_DATASETS_API_BASE, "/prices/snapshot/?ticker=", a.ticker>>

\* get_current_stock_price stringifying the whole envelope instead of the snapshot.
get_current_stock_price_result_envelope(data) ==
    IF Falsy(data) THEN Return(Sentence("Unable to fetch current price or no current price found."))
    ELSE IF data.k # "obj" THEN Raise
    ELSE IF Falsy(DictGet(data, "snapshot", JObj(<<>>)))
         THEN Return(Sentence("Unable to fetch current price or no current price found."))
         ELSE Return(JsonDumps(data, 0))

get_current_stock_price_result(data) ==
    IF Falsy(data) THEN Return(Sentence("Unable to fetch current price or no current price found."))
    ELSE IF data.k # "obj" THEN Raise      \* data.get: AttributeError
    ELSE IF Falsy(DictGet(data, "snapshot", JObj(<<>>)))
         THEN Return(Sentence("Unable to fetch current price or no current price found."))
         ELSE Return(JsonDumps(DictGet(data, "snapshot", JObj(<<>>)), 0))

get_historical_stock_prices_url(a) ==
    <<FINANCIAL_DATASETS_API_BASE, "/prices/?ticker=", a.ticker,
      "&interval=", Bind(a.interval, "day"),
      "&interval_multiplier=", ToString(Bind(a.interval_multiplier, 1)),
      "&start_date=", a.start_date, "&end_date=", a.end_date>>

get_historical_stock_prices_result(data) ==
    IF Falsy(data) THEN Return(Sentence("Unable to fetch prices or no prices found."))
    ELSE IF data.k # "obj" THEN Raise      \* data.get: AttributeError
    ELSE IF Falsy(DictGet(data, "prices", JArr(<<>>)))
         THEN Return(Sentence("Unable to fetch prices or no prices found."))
         ELSE Return(JsonDumps(DictGet(data, "prices", JArr(<<>>)), 0))

get_company_news_url(a) ==
    <<FINANCIAL_DATASETS_API_BASE, "/news/?ticker=", a.ticker>>

\* get_company_news without its `if not news` test.
get_company_news_result_unchecked(data) ==
    IF Falsy(data) THEN Return(Sentence("Unable to fetch news or no news found."))
    ELSE IF data.k # "obj" THEN Raise
    ELSE Return(JsonDumps(DictGet(data, "news", JArr(<<>>)), 0))

get_company_news_result(data) ==
    IF Falsy(data) THEN Return(Sentence("Unable to fetch news or no news found."))
    ELSE IF data.k # "obj" THEN Raise      \* data.get: AttributeError
    ELSE IF Falsy(DictGet(data, "news", JArr(<<>>)))
         THEN Return(Sentence("Unable to fetch news or no news found."))
         ELSE Return(JsonDumps(DictGet(data, "news", JArr(<<>>)), 0))

get_crypto_prices_url(a) ==
    <<FINANCIAL_DATASETS_API_BASE, "/crypto/prices/?ticker=", a.ticker,
      "&interval=", Bind(a.interval, "day"),
      "&interval_multiplier=", ToString(Bind(a.interval_multiplier, 1)),
      "&start_date=", a.start_date, "&end_date=", a.end_date>>

get_crypto_prices_result(data) ==
    IF Falsy(data) THEN Return(Sentence("Unable to fetch prices or no prices found."))
    ELSE IF data.k # "obj" THEN Raise      \* data.get: AttributeError
    ELSE IF Falsy(DictGet(data, "prices", JArr(<<>>)))
         THEN Return(Sentence("Unable to fetch prices or no prices found."))
         ELSE Return(JsonDumps(DictGet(data, "prices", JArr(<<>>)), 0))

get_historical_crypto_prices_url(a) ==
    <<FINANCIAL_DATASETS_API_BASE, "/crypto/prices/?ticker=", a.ticker,
      "&interval=", Bind(a.interval, "day"),
      "&interval_multiplier=", ToString(Bind(a.interval_multiplier, 1)),
      "&start_date=", a.start_date, "&end_date=", a.end_date>>

get_historical_crypto_prices_result(data) ==
    IF Falsy(data) THEN Return(Sentence("Unable to fetch prices or no prices found."))
    ELSE IF data.k # "obj" THEN Raise      \* data.get: AttributeError
    ELSE IF Falsy(DictGet(data, "prices", JArr(<<>>)))
         THEN Return(Sentence("Unable to fetch prices or no prices found."))
         ELSE Return(JsonDumps(DictGet(data, "prices", JArr(<<>>)), 0))

get_current_crypto_price_url(a) ==
    <<FINANCIAL_DATASETS_API_BASE, "/crypto/prices/snapshot/?ticker=", a.ticker>>

get_current_crypto_price_result(data) ==
    IF Falsy(data) THEN Return(Sentence("Unable to fetch current price or no current price found."))
    ELSE IF data.k # "obj" THEN Raise      \* data.get: AttributeError
    ELSE IF Falsy(DictGet(data, "snapshot", JObj(<<>>)))
         THEN Return(Sentence("Unable to fetch current price or no current price found."))
         ELSE Return(JsonDumps(DictGet(data, "snapshot", JObj(<<>>)), 0))

get_available_crypto_tickers_url(a) ==
    <<FINANCIAL_DATASETS_API_BASE, "/crypto/prices/tickers">>

get_available_crypto_tickers_result(data) ==
    IF Falsy(data)
    THEN Return(Sentence("Unable to fetch available crypto tickers or no available crypto tickers found."))
    ELSE IF data.k # "obj" THEN Raise      \* data.get: AttributeError
    ELSE Return(JsonDumps(DictGet(data, "tickers", JArr(<<>>)), 0))

\* get_sec_filings appending filing_type whatever it is: None is formatted "None".
get_sec_filings_url_always(a) ==
    <<FINANCIAL_DATASETS_API_BASE, "/filings/?ticker=", a.ticker,
      "&limit=", ToString(Bind(a.limit, 10)),
      "&filing_type=", IF a.filing_type.given THEN a.filing_type.v ELSE "None">>

\* filing_type is None when omitted; `if filing_type:` is false for None and "".
get_sec_filings_url(a) ==
    <<FINANCIAL_DATASETS_API_BASE, "/filings/?ticker=", a.ticker,
      "&limit=", ToString(Bind(a.limit, 10))>>
    \o (IF a.filing_type.given /\ a.filing_type.v # ""
        THEN <<"&filing_type=", a.filing_type.v>>
        ELSE <<>>)

\* No `if not data` test here: data.get runs on whatever make_request returned.
get_sec_filings_result(data) ==
    IF data.k # "obj" THEN Raise           \* data.get: AttributeError
    ELSE IF Falsy(DictGet(data, "filings", JArr(<<>>)))
         THEN Return(Sentence("Unable to fetch SEC filings or no SEC filings found."))
         ELSE Return(JsonDumps(DictGet(data, "filings", JArr(<<>>)), 0))

Tools ==
    {"get_income_statements",
     "get_balance_sheets",
     "get_cash_flow_statements",
     "get_current_stock_price",
     "get_historical_stock_prices",
     "get_company_news",
     "get_crypto_prices",
     "get_historical_crypto_prices",
     "get_current_crypto_price",
     "get_available_crypto_tickers", "get_sec_filings"}

\* The tool's code up to its call of make_request.
ToolUrl(tl, a) ==
    CASE tl = "get_income_statements" -> get_income_statements_url(a)
      [] tl = "get_balance_sheets" -> get_balance_sheets_url(a)
      [] tl = "get_cash_flow_statements" -> get_cash_flow_statements_url(a)
      [] tl = "get_current_stock_price" -> get_current_stock_price_url(a)
      [] tl = "get_historical_stock_prices" -> get_historical_stock_prices_url(a)
      [] tl = "get_company_news" -> get_company_news_url(a)
      [] tl = "get_crypto_prices" -> get_crypto_prices_url(a)
      [] tl = "get_historical_crypto_prices" -> get_historical_crypto_prices_url(a)
      [] tl = "get_current_crypto_price" -> get_current_crypto_price_url(a)
      [] tl = "get_available_crypto_tickers" -> get_available_crypto_tickers_url(a)
      [] tl = "get_sec_filings" -> get_sec_filings_url(a)

\* The tool's code after make_request returned r, or raised.
ToolResult(tl, r) ==
    IF r.exc THEN Raise
    ELSE CASE tl = "get_income_statements" -> get_income_statements_result(r.val)
           [] tl = "get_balance_sheets" -> get_balance_sheets_result(r.val)
           [] tl = "get_cash_flow_statements" -> get_cash_flow_statements_result(r.val)
           [] tl = "get_current_stock_price" -> get_current_stock_price_result(r.val)
           [] tl = "get_historical_stock_prices" -> get_historical_stock_prices_result(r.val)
           [] tl = "get_company_news" -> get_company_news_result(r.val)
           [] tl = "get_crypto_prices" -> get_crypto_prices_result(r.val)
           [] tl = "get_historical_crypto_prices" -> get_historical_crypto_prices_result(r.val)
           [] tl = "get_current_crypto_price" -> get_current_crypto_price_result(r.val)
           [] tl = "get_available_crypto_tickers" -> get_available_crypto_tickers_result(r.val)
           [] tl = "get_sec_filings" -> get_sec_filings_result(r.val)

-----------------------------------------------------------------------------
(* Inputs: what the host passes and what the upstream API answers *)

Tickers == {"AAPL", "MSFT"}
KeyValues == {"", "k1", "k2"}
DotenvValues == {Unset, SetTo("kf")}

NoArgs ==
    [ticker |-> "", period |-> OmitStr, limit |-> OmitInt,
     start_date |-> "", end_date |-> "",
     interval |-> OmitStr, interval_multiplier |-> OmitInt,
     filing_type |-> OmitStr]

FinancialTools ==
    {"get_income_statements", "get_balance_sheets", "get_cash_flow_statements"}
HistoryTools ==
    {"get_historical_stock_prices", "get_crypto_prices", "get_historical_crypto_prices"}

\* The argument sets the host may pass to tool tl.
ArgsOf(tl) ==
    IF tl \in FinancialTools THEN
        {[NoArgs EXCEPT !.ticker = t, !.period = p, !.limit = l] :
            t \in Tickers, p \in {OmitStr, Given("quarterly")},
            l \in {OmitInt, Given(8)}}
    ELSE IF tl \in HistoryTools THEN
        {[NoArgs EXCEPT !.ticker = t, !.start_date = "2020-01-01",
                        !.end_date = "2020-12-31",
                        !.interval = im[1], !.interval_multiplier = im[2]] :
            t \in Tickers,
            im \in {<<OmitStr, OmitInt>>, <<Given("week"), Given(2)>>}}
    ELSE IF tl = "get_sec_filings" THEN
        {[NoArgs EXCEPT !.ticker = t, !.limit = l, !.filing_type = f] :
            t \in Tickers, l \in {OmitInt, Given(5)},
            f \in {OmitStr, Given(""), Given("10-K")}}
    ELSE IF tl = "get_available_crypto_tickers" THEN {NoArgs}
    ELSE {[NoArgs EXCEPT !.ticker = t] : t \in Tickers}

\* The arguments with every optional one omitted.
DefaultArgsOf(tl) ==
    {a \in ArgsOf(tl) :
        /\ ~a.period.given /\ ~a.limit.given /\ ~a.interval.given
        /\ ~a.interval_multiplier.given /\ ~a.filing_type.given}

\* The envelope field of the upstream endpoint, by its path (the API's schema).
FieldOfPath(path) ==
    CASE path = "/financials/income-statements/?ticker=" -> "income_statements"
      [] path = "/financials/balance-sheets/?ticker=" -> "balance_sheets"
      [] path = "/financials/cash-flow-statements/?ticker=" -> "cash_flow_statements"
      [] path \in {"/prices/snapshot/?ticker=", "/crypto/prices/snapshot/?ticker="} -> "snapshot"
      [] path \in {"/prices/?ticker=", "/crypto/prices/?ticker="} -> "prices"
      [] path = "/news/?ticker=" -> "news"
      [] path = "/crypto/prices/tickers" -> "tickers"
      [] path = "/filings/?ticker=" -> "filings"
      [] OTHER -> "none"

Outcome(net, status, body) == [net |-> net, status |-> status, body |-> body]
NoReply == Outcome("none", 0, <<>>)

Items == {JNum(1), JObj(<<Member("ticker", JStr("AAPL"))>>)}
Arrays == UNION {{JArr(s) : s \in [1..m -> Items]} : m \in 0..MaxItems}
Payloads ==
    Arrays \cup
    {JObj(<<>>), JObj(<<Member("price", JNum(1))>>), JNull, JNum(0), JNum(7),
     JStr(""), JStr("n/a"), JBool(FALSE), JBool(TRUE)}

Envelopes(f) ==
    {JObj(<<Member(f, p)>>) : p \in Payloads}
    \cup {JObj(<<Member("next_page_url", JStr("u")), Member(f, p)>>) :
            p \in {JArr(<<JNum(1)>>), JArr(<<>>)}}
    \cup {JObj(<<>>), JObj(<<Member("detail", JStr("x"))>>)}

NonObjects ==
    {JNull, JArr(<<>>), JArr(<<JNum(1)>>), JStr(""), JStr("s"),
     JNum(0), JNum(7), JBool(FALSE), JBool(TRUE)}

Failures ==
    {Outcome("ConnectError", 0, <<>>),
     Outcome("ReadTimeout", 0, <<>>),
     Outcome("ok", 404, JsonDumps(JObj(<<Member("error", JStr("Not found"))>>), 0)),
     Outcome("ok", 500, <<TText("Internal Server Error")>>),
     Outcome("ok", 200, <<TText("<html>")>>),
     Outcome("ok", 200, <<>>),
     Outcome("ok", 200, <<P("[")>>)}

\* Every outcome a request of the tool whose URL has this path may meet.
Outcomes(path) ==
    Failures \cup
    {Outcome("ok", 200, JsonDumps(v, 0)) : v \in Envelopes(FieldOfPath(path)) \cup NonObjects}

\* An upstream that answers each URL with data naming the ticker it was asked for.
EchoOutcomes(url) ==
    {Outcome("ConnectError", 0, <<>>),
     Outcome("ok", 200, JsonDumps(
        JObj(<<Member(FieldOfPath(url[2]),
                 IF FieldOfPath(url[2]) = "snapshot"
                 THEN JObj(<<Member("ticker", JStr(url[3])), Member("price", JNum(1))>>)
                 ELSE JArr(<<JObj(<<Member("ticker", JStr(url[3]))>>)>>))>>), 0))}

-----------------------------------------------------------------------------
(* The state machine *)

NoData == Value(JNull)

Init ==
    /\ pc = [c \in Calls |-> "idle"]
    /\ tool = [c \in Calls |-> "none"]
    /\ args = [c \in Calls |-> NoArgs]
    /\ wire = [c \in Calls |-> <<>>]
    /\ envSeen = [c \in Calls |-> Unset]
    /\ reply = [c \in Calls |-> NoReply]
    /\ returned = [c \in Calls |-> NoData]
    /\ result = [c \in Calls |-> <<>>]
    /\ overlapped = [c \in Calls |-> FALSE]
    /\ env \in {Unset} \cup {SetTo(v) : v \in KeyValues}
    /\ dotenv \in DotenvValues
    /\ nCalls = 0
    /\ nGets = 0

\* The host calls tool tl with arguments a: the tool builds its URL and enters
\* make_request, which loads .env, builds the headers, opens a client and
\* suspends in client.get.
Invoke(c, tl, a) ==
    /\ pc[c] = "idle"
    /\ nCalls < MaxCalls
    /\ pc' = [pc EXCEPT ![c] = "awaiting"]
    /\ tool' = [tool EXCEPT ![c] = tl]
    /\ args' = [args EXCEPT ![c] = a]
    /\ envSeen' = [envSeen EXCEPT ![c] = env]
    /\ env' = load_dotenv(env, dotenv)
    /\ wire' = [wire EXCEPT ![ClientOf(c)] =
                    SendGet(<<>>, [url |-> ToolUrl(tl, a),
                                   headers |-> api_key_headers(env')])]
    /\ nCalls' = nCalls + 1
    /\ nGets' = nGets + Len(wire'[ClientOf(c)])
    /\ UNCHANGED <<reply, returned, result, overlapped, dotenv>>

\* The network outcome o reaches the suspended call: make_request returns (or
\* raises) and the tool runs to its own return (or raise).
Respond(c, o) ==
    /\ pc[c] = "awaiting"
    /\ reply' = [reply EXCEPT ![c] = o]
    /\ returned' = [returned EXCEPT ![c] = make_request(o)]
    /\ result' = [result EXCEPT ![c] = ToolResult(tool[c], returned'[c]).out]
    /\ pc' = [pc EXCEPT ![c] =
                IF ToolResult(tool[c], returned'[c]).exc THEN "raised" ELSE "done"]
    /\ overlapped' = [overlapped EXCEPT ![c] =
                        \E d \in Calls \ {c} : pc[d] = "awaiting"]
    /\ UNCHANGED <<tool, args, wire, envSeen, env, dotenv, nCalls, nGets>>

\* Any outcome the upstream can produce for the request on the call's client.
RespondAny(c) ==
    /\ pc[c] = "awaiting"
    /\ wire[ClientOf(c)] # <<>>
    /\ \E o \in Outcomes(wire[ClientOf(c)][1].url[2]) : Respond(c, o)

\* The ticker-specific upstream answers the request on the call's client.
RespondEcho(c) ==
    /\ pc[c] = "awaiting"
    /\ wire[ClientOf(c)] # <<>>
    /\ Len(wire[ClientOf(c)][1].url) >= 3
    /\ \E o \in EchoOutcomes(wire[ClientOf(c)][1].url) : Respond(c, o)

\* The host takes the call's result (or its error); the coroutine's frame and
\* its client are gone.
Collect(c) ==
    /\ pc[c] \in {"done", "raised"}
    /\ pc' = [pc EXCEPT ![c] = "idle"]
    /\ tool' = [tool EXCEPT ![c] = "none"]
    /\ args' = [args EXCEPT ![c] = NoArgs]
    /\ wire' = [wire EXCEPT ![ClientOf(c)] = <<>>]
    /\ envSeen' = [envSeen EXCEPT ![c] = Unset]
    /\ reply' = [reply EXCEPT ![c] = NoReply]
    /\ returned' = [returned EXCEPT ![c] = NoData]
    /\ result' = [result EXCEPT ![c] = <<>>]
    /\ overlapped' = [overlapped EXCEPT ![c] = FALSE]
    /\ UNCHANGED <<env, dotenv, nCalls, nGets>>

\* The environment variable is set or changed from outside the calls.
SetEnv(v) ==
    /\ env # SetTo(v)
    /\ env' = SetTo(v)
    /\ UNCHANGED <<pc, tool, args, wire, envSeen, reply, returned, result,
                   overlapped, dotenv, nCalls, nGets>>

UnsetEnv ==
    /\ env.set
    /\ env' = Unset
    /\ UNCHANGED <<pc, tool, args, wire, envSeen, reply, returned, result,
                   overlapped, dotenv, nCalls, nGets>>

\* One call at a time, every tool with every argument set and every outcome.
Next ==
    \/ \E tl \in Tools : \E a \in ArgsOf(tl) : Invoke("c1", tl, a)
    \/ RespondAny("c1")
    \/ Collect("c1")
    \/ \E v \in KeyValues : SetEnv(v)
    \/ UnsetEnv

Spec == Init /\ [][Next]_vars

\* Two calls in flight at once against the ticker-specific upstream.
InitConc ==
    /\ Init
    /\ env = SetTo("k1")
    /\ dotenv = Unset

NextConc ==
    \/ \E c \in Calls : \E tl \in Tools \ {"get_available_crypto_tickers"} :
            \E a \in DefaultArgsOf(tl) : Invoke(c, tl, a)
    \/ \E c \in Calls : RespondEcho(c)
    \/ \E c \in Calls : Collect(c)
    \/ \E v \in {"k1", "k2"} : SetEnv(v)

SpecConc == InitConc /\ [][NextConc]_vars

-----------------------------------------------------------------------------
(* The specification's tables, written from its section 4.2 *)

ExpectedField(tl) ==
    CASE tl = "get_income_statements" -> "income_statements"
      [] tl = "get_balance_sheets" -> "balance_sheets"
      [] tl = "get_cash_flow_statements" -> "cash_flow_statements"
      [] tl \in {"get_current_stock_price", "get_current_crypto_price"} -> "snapshot"
      [] tl \in HistoryTools -> "prices"
      [] tl = "get_company_news" -> "news"
      [] tl = "get_available_crypto_tickers" -> "tickers"
      [] tl = "get_sec_filings" -> "filings"
      [] OTHER -> "none"

Resource(tl) ==
    CASE tl = "get_income_statements" -> "income statements"
      [] tl = "get_balance_sheets" -> "balance sheets"
      [] tl = "get_cash_flow_statements" -> "cash flow statements"
      [] tl \in {"get_current_stock_price", "get_current_crypto_price"} -> "current price"
      [] tl \in HistoryTools -> "prices"
      [] tl = "get_company_news" -> "news"
      [] tl = "get_available_crypto_tickers" -> "available crypto tickers"
      [] tl = "get_sec_filings" -> "SEC filings"
      [] OTHER -> "none"

\* "Unable to fetch X or no X found."
FallbackOf(tl) ==
    <<TText("Unable to fetch " \o Resource(tl) \o " or no " \o Resource(tl) \o " found.")>>

Ended(c) == pc[c] \in {"done", "raised"}

\* The request got a 2xx response whose body is valid JSON.
Succeeded(o) == o.net = "ok" /\ o.status \in 200..299 /\ JsonLoads(o.body).ok
Body(c) == JsonLoads(reply[c].body).val
GotObject(c) == Ended(c) /\ Succeeded(reply[c]) /\ Body(c).k = "obj"

\* The value an object holds at a key.
At(obj, key) == obj.v[CHOOSE i \in 1..Len(obj.v) : obj.v[i].key = key].val

\* A value that is not null, false, zero, nor an empty string, array or object.
NonEmpty(j) ==
    CASE j.k \in {"arr", "obj"} -> Len(j.v) > 0
      [] j.k = "str" -> j.v # ""
      [] j.k = "num" -> j.v # 0
      [] j.k = "bool" -> j.v
      [] OTHER -> FALSE

ApiKeyHeader(value) == <<[name |-> "X-API-KEY", value |-> value]>>

-----------------------------------------------------------------------------
(* The claims *)

\* C1: make_request never ends by raising: whatever the outcome of the request
\* (transport failure, non-2xx status, a body that is not JSON, success), it
\* returns the parsed JSON body unchanged or the one-key mapping
\* {"Error": <the failure's text>}.
C1_MakeRequestNeverRaises ==
    \A c \in Calls : Ended(c) =>
        /\ ~returned[c].exc
        /\ IF Succeeded(reply[c])
           THEN returned[c].val = Body(c)
           ELSE /\ returned[c].val.k = "obj"
                /\ Len(returned[c].val.v) = 1
                /\ returned[c].val.v[1].key = "Error"
                /\ returned[c].val.v[1].val =
                      JStr(IF reply[c].net # "ok" THEN TransportText(reply[c].net)
                           ELSE IF reply[c].status \notin 200..299
                                THEN "HTTP error " \o ToString(reply[c].status)
                                ELSE "Expecting value: line 1 column 1 (char 0)")

\* A call ended on a 200 response whose body is not JSON.
C1_Witness ==
    \E c \in Calls :
        /\ Ended(c) /\ reply[c].net = "ok" /\ reply[c].status = 200
        /\ ~JsonLoads(reply[c].body).ok
        /\ HasKey(returned[c].val, "Error")

\* C2: for every tool, an invocation whose request fails in transport returns
\* the tool's fixed fallback sentence "Unable to fetch X or no X found.".
C2_TransportFailureGivesFallback ==
    \A c \in Calls : (Ended(c) /\ reply[c].net # "ok") =>
        pc[c] = "done" /\ result[c] = FallbackOf(tool[c])

\* C3: for every tool but get_available_crypto_tickers, an upstream JSON object
\* that lacks the expected field, or holds an empty array there, gives exactly
\* the fallback sentence; get_available_crypto_tickers gives the text "[]" for
\* an empty ticker list.
C3_EmptyResult ==
    \A c \in Calls : GotObject(c) =>
        IF tool[c] # "get_available_crypto_tickers"
        THEN (\/ ~HasKey(Body(c), ExpectedField(tool[c]))
              \/ At(Body(c), ExpectedField(tool[c])) = JArr(<<>>))
             => (pc[c] = "done" /\ result[c] = FallbackOf(tool[c]))
        ELSE (/\ HasKey(Body(c), "tickers")
              /\ At(Body(c), "tickers") = JArr(<<>>))
             => (pc[c] = "done" /\ result[c] = <<P("["), P("]")>>)

\* get_company_news ended on an envelope whose news array is empty.
C3_Witness ==
    \E c \in Calls :
        /\ GotObject(c) /\ tool[c] = "get_company_news"
        /\ HasKey(Body(c), "news") /\ At(Body(c), "news") = JArr(<<>>)
        /\ result[c] = FallbackOf(tool[c])

\* C4: when the upstream JSON object holds a non-empty value at the tool's
\* expected field, the returned string parsed back as JSON is exactly that
\* value, and nothing else of the envelope.
C4_RoundTrip ==
    \A c \in Calls :
        (/\ GotObject(c)
         /\ HasKey(Body(c), ExpectedField(tool[c]))
         /\ NonEmpty(At(Body(c), ExpectedField(tool[c]))))
        => /\ pc[c] = "done"
           /\ JsonLoads(result[c]).ok
           /\ JsonLoads(result[c]).val = At(Body(c), ExpectedField(tool[c]))

\* get_current_stock_price returned the snapshot of a two-field envelope.
C4_Witness ==
    \E c \in Calls :
        /\ GotObject(c) /\ tool[c] = "get_current_stock_price"
        /\ Len(Body(c).v) = 2
        /\ HasKey(Body(c), "snapshot") /\ NonEmpty(At(Body(c), "snapshot"))
        /\ pc[c] = "done"

\* C5 as stated: each outbound request carries X-API-KEY with exactly the
\* variable's value when the variable is set at that call, and no X-API-KEY
\* header when it is unset.
C5_HeaderFollowsVariable ==
    \A c \in Calls : pc[c] # "idle" =>
        \A i \in 1..Len(wire[c]) :
            wire[c][i].headers =
                IF envSeen[c].set THEN ApiKeyHeader(envSeen[c].val) ELSE <<>>

\* C5 amended: each outbound request reflects the variable as it is at that
\* call after the call's own load_dotenv(): set to a non-empty value, the
\* request carries X-API-KEY with exactly that value; set to the empty string,
\* no header; unset, the header carries the non-empty value the .env file
\* gives the variable, and there is no header when the file gives none.
C5_HeaderFollowsLoadedVariable ==
    \A c \in Calls : pc[c] # "idle" =>
        /\ wire[c] # <<>>
        /\ \A i \in 1..Len(wire[c]) :
            wire[c][i].headers =
                IF envSeen[c].set
                THEN (IF envSeen[c].val # "" THEN ApiKeyHeader(envSeen[c].val) ELSE <<>>)
                ELSE (IF dotenv.set /\ dotenv.val # ""
                      THEN ApiKeyHeader(dotenv.val) ELSE <<>>)

\* A second or later invocation started with the variable set to "k2".
C5_Witness ==
    \E c \in Calls :
        /\ pc[c] = "awaiting" /\ nCalls >= 2
        /\ envSeen[c] = SetTo("k2")
        /\ wire[c][1].headers = ApiKeyHeader("k2")

\* C6 as stated: get_sec_filings requests a URL without a filing_type
\* parameter when filing_type is omitted, and with "&filing_type=<value>"
\* appended after ticker and limit for every supplied value.
C6_FilingTypeForEverySuppliedValue ==
    \A c \in Calls : (pc[c] # "idle" /\ tool[c] = "get_sec_filings") =>
        LET url == wire[c][1].url
            head == <<"https://api.financialdatasets.ai", "/filings/?ticker=",
                      args[c].ticker, "&limit=",
                      ToString(IF args[c].limit.given THEN args[c].limit.v ELSE 10)>>
        IN IF args[c].filing_type.given
           THEN url = head \o <<"&filing_type=", args[c].filing_type.v>>
           ELSE url = head

\* C6 amended: the URL has "&filing_type=<value>" appended after ticker and
\* limit for every supplied non-empty value, and no filing_type parameter when
\* filing_type is omitted or is the empty string.
C6_FilingTypeForNonEmptyValue ==
    \A c \in Calls : (pc[c] # "idle" /\ tool[c] = "get_sec_filings") =>
        LET url == wire[c][1].url
            head == <<"https://api.financialdatasets.ai", "/filings/?ticker=",
                      args[c].ticker, "&limit=",
                      ToString(IF args[c].limit.given THEN args[c].limit.v ELSE 10)>>
        IN IF args[c].filing_type.given /\ args[c].filing_type.v # ""
           THEN url = head \o <<"&filing_type=", args[c].filing_type.v>>
           ELSE url = head /\ \A i \in 1..Len(url) : url[i] # "&filing_type="

\* get_sec_filings was called with filing_type "10-K".
C6_Witness ==
    \E c \in Calls :
        /\ pc[c] = "awaiting" /\ tool[c] = "get_sec_filings"
        /\ args[c].filing_type = Given("10-K")
        /\ wire[c][1].url[Len(wire[c][1].url)] = "10-K"

\* C7: every invocation issues exactly one GET before it returns, whatever the
\* outcome: no retry after a failure, and every invocation issues its own GET.
C7_OneGetPerInvocation ==
    /\ nGets = nCalls
    /\ \A c \in Calls :
         Len(wire[c]) = IF pc[c] = "idle" THEN 0 ELSE 1

\* A second or later invocation ended on a failed request.
C7_Witness ==
    \E c \in Calls :
        /\ pc[c] = "done" /\ nCalls >= 2
        /\ reply[c].net = "ConnectError"

\* C8: when two invocations with different tickers interleave at the network
\* await, each requests the URL built from its own arguments with the headers
\* of its own call, and returns the result of the response to its own request:
\* nothing of the other call's ticker reaches it.
C8_CallsAreIsolated ==
    \A c \in Calls : pc[c] # "idle" =>
        /\ Len(wire[c]) = 1
        /\ wire[c][1].url = ToolUrl(tool[c], args[c])
        /\ wire[c][1].url[3] = args[c].ticker
        /\ wire[c][1].headers = ApiKeyHeader(envSeen[c].val)
        /\ Ended(c) =>
            /\ pc[c] = "done"
            /\ reply[c] \in EchoOutcomes(wire[c][1].url)
            /\ \A i \in 1..Len(result[c]) :
                 (result[c][i].t = "str" /\ result[c][i].s \in Tickers)
                    => result[c][i].s = args[c].ticker
            /\ reply[c].net = "ok" =>
                 \E i \in 1..Len(result[c]) : result[c][i] = TStr(args[c].ticker)

\* Both calls returned data, on different tickers and under different keys,
\* the first having resumed while the second was suspended.
C8_Witness ==
    /\ pc["c1"] = "done" /\ pc["c2"] = "done"
    /\ args["c1"].ticker # args["c2"].ticker
    /\ tool["c1"] # tool["c2"]
    /\ envSeen["c1"] # envSeen["c2"]
    /\ reply["c1"].net = "ok" /\ reply["c2"].net = "ok"
    /\ overlapped["c1"]

\* C9: get_income_statements called with only ticker requests a URL whose
\* query string has the given ticker, period=annual and limit=4.
C9_IncomeStatementDefaults ==
    \A c \in Calls :
        (/\ pc[c] # "idle" /\ tool[c] = "get_income_statements"
         /\ ~args[c].period.given /\ ~args[c].limit.given)
        => wire[c][1].url =
              <<"https://api.financialdatasets.ai",
                "/financials/income-statements/?ticker=", args[c].ticker,
                "&period=", "annual", "&limit=", "4">>

\* get_income_statements was called with only ticker.
C9_Witness ==
    \E c \in Calls :
        /\ pc[c] = "awaiting" /\ tool[c] = "get_income_statements"
        /\ ~args[c].period.given /\ ~args[c].limit.given
        /\ args[c].ticker = "MSFT"

\* C10: for every tool and every value make_request can return, the invocation
\* ends by returning a string, the 2-space pretty-printed JSON of the extracted
\* field or the tool's fallback sentence; it never ends by raising.
C10_ToolsNeverRaise ==
    \A c \in Calls :
        /\ pc[c] # "raised"
        /\ pc[c] = "done" =>
             \/ result[c] = FallbackOf(tool[c])
             \/ /\ JsonLoads(result[c]).ok
                /\ result[c] = JsonDumps(JsonLoads(result[c]).val, 0)

====
